---- MODULE Spec2Model ----
(***************************************************************************)
(* Model of src/app.py: the WhatsAppBulkSender batch worker (run), the     *)
(* socket command handlers (start_sending, pause_sending, stop_sending)    *)
(* and the pure helpers format_phone_number and prepare_message.           *)
(*                                                                         *)
(* Every accepted start creates a new WhatsAppBulkSender object and a new  *)
(* daemon thread running its run() method; the module-level current_sender *)
(* always refers to the object created last.  Sender objects are numbered  *)
(* 1, 2, ... in creation order, so current_sender = 0 models None and      *)
(* current_sender = k means k objects exist and the k-th is current.       *)
(*                                                                         *)
(* The spreadsheet, the delivery automation and the notification sink are  *)
(* the environment: what read_excel returns, whether a delivery succeeds   *)
(* and whether a statement of the per-job try body raises are chosen       *)
(* nondeterministically at the step that performs the call.  Inside the    *)
(* per-job try (lines 164-182) an exception can escape from lines 165-172, *)
(* from send_image before its own try (line 113) and from emit_progress    *)
(* (line 182); send_message catches its own exceptions and returns False.  *)
(* Each command handler runs as one step.                                  *)
(***************************************************************************)
EXTENDS Integers, Sequences, FiniteSets, TLC

\* ---- bounds of the model ----
MaxSenders == 2      \* accepted start commands (sender objects created)
MaxJobs == 2         \* rows of a spreadsheet
MaxLen == 3          \* characters of a raw phone number

Senders == 1..MaxSenders

VARIABLES
    current_sender,   \* app.py:220  0 = None, k = the k-th sender object
    is_running,       \* app.py:55   per sender object
    is_paused,        \* app.py:56
    success_count,    \* app.py:52
    failure_count,    \* app.py:53
    failed_numbers,   \* app.py:54   sequence of <<row, "formatted" | "raw">>
    pc,               \* position of the sender's worker thread in run()
    input,            \* what read_excel gave: "unread", "unreadable", "missing", "ok"
    total,            \* app.py:148  len(df)
    index,            \* app.py:156  1-based number of the row taken by the for loop
    begun,            \* history: rows whose per-job body was entered, in order
    stop_issued,      \* history: a stop command hit this sender while its worker lived
    paused_seen,      \* history: the worker slept at least once in the pause loop
    image_result,     \* history: what the image step of the row being recorded did
    progress_log,     \* progress_update events emitted (app.py:72)
    summary_total,    \* "Total:" line of emit_summary (app.py:207), -1 = not emitted
    run_log,        \* notable log lines emitted by run() (app.py:144, 158, 185, 192)
    complete_log,     \* process_complete events emitted (app.py:197)
    number,           \* format_phone_number: argument
    country_code,     \* format_phone_number: self.default_country_code
    cleaned,          \* format_phone_number: returned value
    fpc,              \* format_phone_number: "call" before, "ret" after the call
    message,          \* prepare_message: argument
    prepared,         \* prepare_message: value returned for message
    prepared_again,   \* prepare_message: value returned for prepared
    ppc               \* prepare_message: "call", "once" (one call made), "twice"

senderVars == <<is_running, is_paused, success_count, failure_count, failed_numbers>>
workerVars == <<pc, input, total, index>>
historyVars == <<begun, stop_issued, paused_seen, image_result>>
eventVars == <<progress_log, summary_total, run_log, complete_log>>
prepVars == <<message, prepared, prepared_again, ppc>>
fmtVars == <<number, country_code, cleaned, fpc, prepVars>>
vars == <<current_sender, senderVars, workerVars, historyVars, eventVars, fmtVars>>

\* ======================= format_phone_number ============================
Digits == {"1", "7", "9"}
Whitespace == {" ", "\n"}
Alphabet == Digits \cup {"+", "-", " "}

RECURSIVE StrsOfLen(_)
StrsOfLen(n) ==
    IF n = 0 THEN {<<>>}
    ELSE {Append(s, c) : s \in StrsOfLen(n - 1), c \in Alphabet}

RawNumbers == UNION {StrsOfLen(n) : n \in 0..MaxLen}
CountryCodes == {<<"+", "9", "1">>, <<"+", "1">>}

\* str.lstrip() / str.rstrip() / str.strip() on whitespace
RECURSIVE LStrip(_)
LStrip(s) ==
    IF s # <<>> /\ Head(s) \in Whitespace THEN LStrip(Tail(s)) ELSE s

RECURSIVE RStrip(_)
RStrip(s) ==
    IF s # <<>> /\ s[Len(s)] \in Whitespace
    THEN RStrip(SubSeq(s, 1, Len(s) - 1)) ELSE s

Strip(s) == RStrip(LStrip(s))

\* the generator expression of line 82
KeepChar(c) == c \in Digits \/ c = "+"

\* ''.join(c for c in number if c.isdigit() or c == '+')
RECURSIVE Clean(_)
Clean(s) ==
    IF s = <<>> THEN <<>>
    ELSE IF KeepChar(Head(s)) THEN <<Head(s)>> \o Clean(Tail(s))
    ELSE Clean(Tail(s))

StartsWithPlus(s) == s # <<>> /\ Head(s) = "+"

format_phone_number(cc, n) ==
    LET c == Clean(Strip(n))
    IN IF ~StartsWithPlus(c) THEN cc \o c ELSE c

\* ========================= prepare_message =============================
\* characters urllib.parse.quote never encodes (letters and digits of the model)
Unreserved == {"a", "A", "0", "2", "6"}
MsgAlphabet == {"a", "%", " ", "\n", "&"}

RECURSIVE MsgsOfLen(_)
MsgsOfLen(n) ==
    IF n = 0 THEN {<<>>}
    ELSE {Append(s, c) : s \in MsgsOfLen(n - 1), c \in MsgAlphabet}

RawMessages == UNION {MsgsOfLen(n) : n \in 0..MaxLen}

\* the %XX form of a character (upper-case hex of its byte)
PercentEncode(c) ==
    CASE c = " " -> <<"%", "2", "0">>
      [] c = "&" -> <<"%", "2", "6">>
      [] c = "%" -> <<"%", "2", "5">>
      [] c = "\n" -> <<"%", "0", "A">>
      [] OTHER -> <<c>>

\* message.replace("\n", "%0A"), line 89
RECURSIVE ReplaceNewlines(_)
ReplaceNewlines(s) ==
    IF s = <<>> THEN <<>>
    ELSE (IF Head(s) = "\n" THEN <<"%", "0", "A">> ELSE <<Head(s)>>)
             \o ReplaceNewlines(Tail(s))

\* mutant: quote called without safe='%', so '%' is encoded too
RECURSIVE Quote_nosafe(_)
Quote_nosafe(s) ==
    IF s = <<>> THEN <<>>
    ELSE (IF Head(s) \in Unreserved THEN <<Head(s)>> ELSE PercentEncode(Head(s)))
             \o Quote_nosafe(Tail(s))

\* urllib.parse.quote(message, safe='%'), line 90
RECURSIVE Quote(_)
Quote(s) ==
    IF s = <<>> THEN <<>>
    ELSE (IF Head(s) \in Unreserved \/ Head(s) = "%"
          THEN <<Head(s)>> ELSE PercentEncode(Head(s)))
             \o Quote(Tail(s))

prepare_message(m) == Quote(ReplaceNewlines(Strip(m)))

\* ============================ Init ======================================
PrepIdle ==
    /\ message = <<>>
    /\ prepared = <<>>
    /\ prepared_again = <<>>
    /\ ppc = "twice"

SenderInit ==
    /\ current_sender = 0
    /\ is_running = [s \in Senders |-> FALSE]
    /\ is_paused = [s \in Senders |-> FALSE]
    /\ success_count = [s \in Senders |-> 0]
    /\ failure_count = [s \in Senders |-> 0]
    /\ failed_numbers = [s \in Senders |-> <<>>]
    /\ pc = [s \in Senders |-> "none"]
    /\ input = [s \in Senders |-> "unread"]
    /\ total = [s \in Senders |-> 0]
    /\ index = [s \in Senders |-> 0]
    /\ begun = [s \in Senders |-> <<>>]
    /\ stop_issued = [s \in Senders |-> FALSE]
    /\ paused_seen = [s \in Senders |-> FALSE]
    /\ image_result = [s \in Senders |-> "none"]
    /\ progress_log = [s \in Senders |-> <<>>]
    /\ summary_total = [s \in Senders |-> -1]
    /\ run_log = [s \in Senders |-> {}]
    /\ complete_log = [s \in Senders |-> <<>>]

Init ==
    /\ SenderInit
    /\ number = <<>>
    /\ country_code = <<"+", "9", "1">>
    /\ cleaned = <<>>
    /\ fpc = "ret"
    /\ PrepIdle

\* the worker thread of sender s has been launched and has not terminated
Active(s) == pc[s] \notin {"none", "done"}

\* ========================= command handlers =============================
\* handle_start_sending, lines 314-316: a run is already flagged running
StartRejected ==
    /\ current_sender # 0
    /\ is_running[current_sender]
    /\ UNCHANGED <<current_sender, senderVars, workerVars, historyVars, eventVars, fmtVars>>

\* handle_start_sending, lines 318-323: the file does not exist
StartNoFile ==
    /\ ~(current_sender # 0 /\ is_running[current_sender])
    /\ UNCHANGED <<current_sender, senderVars, workerVars, historyVars, eventVars, fmtVars>>

\* mutant: the pause flag is shared with the previous sender object
StartAccepted_sharedpause ==
    /\ ~(current_sender # 0 /\ is_running[current_sender])
    /\ current_sender < MaxSenders
    /\ LET s == current_sender + 1 IN
        /\ current_sender' = s
        /\ is_running' = [is_running EXCEPT ![s] = FALSE]
        /\ is_paused' = [is_paused EXCEPT ![s] =
                IF current_sender # 0 THEN is_paused[current_sender] ELSE FALSE]
        /\ success_count' = [success_count EXCEPT ![s] = 0]
        /\ failure_count' = [failure_count EXCEPT ![s] = 0]
        /\ failed_numbers' = [failed_numbers EXCEPT ![s] = <<>>]
        /\ pc' = [pc EXCEPT ![s] = "start"]
    /\ UNCHANGED <<input, total, index, historyVars, eventVars, fmtVars>>

\* handle_start_sending, lines 325-332: new object (fields of __init__), new thread
StartAccepted ==
    /\ ~(current_sender # 0 /\ is_running[current_sender])
    /\ current_sender < MaxSenders
    /\ LET s == current_sender + 1 IN
        /\ current_sender' = s
        /\ is_running' = [is_running EXCEPT ![s] = FALSE]
        /\ is_paused' = [is_paused EXCEPT ![s] = FALSE]
        /\ success_count' = [success_count EXCEPT ![s] = 0]
        /\ failure_count' = [failure_count EXCEPT ![s] = 0]
        /\ failed_numbers' = [failed_numbers EXCEPT ![s] = <<>>]
        /\ pc' = [pc EXCEPT ![s] = "start"]
    /\ UNCHANGED <<input, total, index, historyVars, eventVars, fmtVars>>

handle_start_sending == StartRejected \/ StartNoFile \/ StartAccepted

\* mutant: the pause command also clears the run flag
handle_pause_stops ==
    /\ current_sender # 0
    /\ is_paused' = [is_paused EXCEPT ![current_sender] = ~is_paused[current_sender]]
    /\ is_running' = [is_running EXCEPT ![current_sender] = FALSE]
    /\ UNCHANGED <<current_sender, success_count, failure_count,
                   failed_numbers, workerVars, historyVars, eventVars, fmtVars>>

handle_pause ==
    /\ current_sender # 0
    /\ is_paused' = [is_paused EXCEPT ![current_sender] = ~is_paused[current_sender]]
    /\ UNCHANGED <<current_sender, is_running, success_count, failure_count,
                   failed_numbers, workerVars, historyVars, eventVars, fmtVars>>

handle_stop ==
    /\ current_sender # 0
    /\ is_running' = [is_running EXCEPT ![current_sender] = FALSE]
    /\ stop_issued' = [stop_issued EXCEPT
                         ![current_sender] = @ \/ Active(current_sender)]
    /\ UNCHANGED <<current_sender, is_paused, success_count, failure_count,
                   failed_numbers, workerVars, begun, paused_seen, image_result,
                   eventVars, fmtVars>>

\* ============================ the worker ================================
\* mutant: the handler of the per-job try counts the failure and forgets the number
RecordFailure_rawdropped(s, entry) ==
    /\ failure_count' = [failure_count EXCEPT ![s] = @ + 1]
    /\ failed_numbers' = [failed_numbers EXCEPT ![s] =
                            IF entry[2] = "raw" THEN @ ELSE Append(@, entry)]

\* lines 179-180 and 186-187: count the failure and remember the number.
\* The two statements are one step: only the worker of s reads or writes
\* these fields, and nothing is emitted between them.
RecordFailure(s, entry) ==
    /\ failure_count' = [failure_count EXCEPT ![s] = @ + 1]
    /\ failed_numbers' = [failed_numbers EXCEPT ![s] = Append(@, entry)]

\* line 177
RecordSuccess(s) ==
    /\ success_count' = [success_count EXCEPT ![s] = @ + 1]

\* run(), lines 133-135: the first statement of the thread
RunBegin(s) ==
    /\ pc[s] = "start"
    /\ is_running' = [is_running EXCEPT ![s] = TRUE]
    /\ pc' = [pc EXCEPT ![s] = "read"]
    /\ UNCHANGED <<current_sender, is_paused, success_count, failure_count,
                   failed_numbers, input, total, index, historyVars, eventVars,
                   fmtVars>>

\* mutant: the early return of line 146 leaves run() without the final event
ReadInput_noemit(s) ==
    /\ pc[s] = "read"
    /\ \E kind \in {"unreadable", "missing", "ok"}, n \in 0..MaxJobs :
        /\ input' = [input EXCEPT ![s] = kind]
        /\ CASE kind = "unreadable" ->
                  /\ run_log' = [run_log EXCEPT ![s] = @ \cup {"fatal"}]
                  /\ pc' = [pc EXCEPT ![s] = "finally"]
                  /\ UNCHANGED <<is_running, total>>
             [] kind = "missing" ->
                  /\ run_log' = [run_log EXCEPT ![s] = @ \cup {"missing_columns"}]
                  /\ is_running' = [is_running EXCEPT ![s] = FALSE]
                  /\ pc' = [pc EXCEPT ![s] = "done"]
                  /\ UNCHANGED total
             [] kind = "ok" ->
                  /\ total' = [total EXCEPT ![s] = n]
                  /\ pc' = [pc EXCEPT ![s] = "loop"]
                  /\ UNCHANGED <<is_running, run_log>>
    /\ UNCHANGED <<current_sender, is_paused, success_count, failure_count,
                   failed_numbers, index, historyVars, progress_log,
                   summary_total, complete_log, fmtVars>>

\* mutant: the required-column check is skipped
ReadInput_nocheck(s) ==
    /\ pc[s] = "read"
    /\ \E kind \in {"unreadable", "missing", "ok"}, n \in 0..MaxJobs :
        /\ input' = [input EXCEPT ![s] = kind]
        /\ IF kind = "unreadable"
           THEN /\ run_log' = [run_log EXCEPT ![s] = @ \cup {"fatal"}]
                /\ pc' = [pc EXCEPT ![s] = "finally"]
                /\ UNCHANGED <<is_running, total>>
           ELSE /\ total' = [total EXCEPT ![s] = n]
                /\ pc' = [pc EXCEPT ![s] = "loop"]
                /\ UNCHANGED <<is_running, run_log>>
    /\ UNCHANGED <<current_sender, is_paused, success_count, failure_count,
                   failed_numbers, index, historyVars, progress_log,
                   summary_total, complete_log, fmtVars>>

\* run(), lines 137-154 (and 191-193 when read_excel raises): read the sheet,
\* check the required columns, count the rows, count down
ReadInput(s) ==
    /\ pc[s] = "read"
    /\ \E kind \in {"unreadable", "missing", "ok"}, n \in 0..MaxJobs :
        /\ input' = [input EXCEPT ![s] = kind]
        /\ CASE kind = "unreadable" ->
                  /\ run_log' = [run_log EXCEPT ![s] = @ \cup {"fatal"}]
                  /\ pc' = [pc EXCEPT ![s] = "finally"]
                  /\ UNCHANGED <<is_running, total>>
             [] kind = "missing" ->
                  /\ run_log' = [run_log EXCEPT ![s] = @ \cup {"missing_columns"}]
                  /\ is_running' = [is_running EXCEPT ![s] = FALSE]
                  /\ pc' = [pc EXCEPT ![s] = "finally"]
                  /\ UNCHANGED total
             [] kind = "ok" ->
                  /\ total' = [total EXCEPT ![s] = n]
                  /\ pc' = [pc EXCEPT ![s] = "loop"]
                  /\ UNCHANGED <<is_running, run_log>>
    /\ UNCHANGED <<current_sender, is_paused, success_count, failure_count,
                   failed_numbers, index, historyVars, progress_log,
                   summary_total, complete_log, fmtVars>>

\* run(), lines 156-159: the for statement takes the next row, then the stop check
LoopCheck(s) ==
    /\ pc[s] = "loop"
    /\ IF index[s] = total[s]
       THEN /\ pc' = [pc EXCEPT ![s] = "summary"]
            /\ UNCHANGED <<index, run_log>>
       ELSE /\ index' = [index EXCEPT ![s] = @ + 1]
            /\ IF ~is_running[s]
               THEN /\ run_log' = [run_log EXCEPT ![s] = @ \cup {"stopped"}]
                    /\ pc' = [pc EXCEPT ![s] = "summary"]
               ELSE /\ pc' = [pc EXCEPT ![s] = "pause"]
                    /\ UNCHANGED run_log
    /\ UNCHANGED <<current_sender, senderVars, input, total, historyVars,
                   progress_log, summary_total, complete_log, fmtVars>>

\* mutant: a paused worker skips the row it holds instead of waiting
PauseWait_drop(s) ==
    /\ pc[s] = "pause"
    /\ IF is_paused[s]
       THEN /\ paused_seen' = [paused_seen EXCEPT ![s] = TRUE]
            /\ pc' = [pc EXCEPT ![s] = "loop"]
       ELSE /\ pc' = [pc EXCEPT ![s] = "body"]
            /\ UNCHANGED paused_seen
    /\ UNCHANGED <<current_sender, senderVars, input, total, index, begun,
                   stop_issued, image_result, eventVars, fmtVars>>

\* run(), lines 161-162: one evaluation of the while condition
PauseWait(s) ==
    /\ pc[s] = "pause"
    /\ IF is_paused[s]
       THEN /\ paused_seen' = [paused_seen EXCEPT ![s] = TRUE]
            /\ UNCHANGED pc
       ELSE /\ pc' = [pc EXCEPT ![s] = "body"]
            /\ UNCHANGED paused_seen
    /\ UNCHANGED <<current_sender, senderVars, input, total, index, begun,
                   stop_issued, image_result, eventVars, fmtVars>>

\* run(), lines 165-172: read the row, format number and message, log
Body(s) ==
    /\ pc[s] = "body"
    /\ begun' = [begun EXCEPT ![s] = Append(@, index[s])]
    /\ \E raises \in BOOLEAN :
        pc' = [pc EXCEPT ![s] = IF raises THEN "except" ELSE "sending"]
    /\ UNCHANGED <<current_sender, senderVars, input, total, index, stop_issued,
                   paused_seen, image_result, eventVars, fmtVars>>

\* run(), lines 174, 178-180 with send_message, lines 93-105
SendMessage(s) ==
    /\ pc[s] = "sending"
    /\ \E ok \in BOOLEAN :
        IF ok
        THEN /\ pc' = [pc EXCEPT ![s] = "image"]
             /\ UNCHANGED <<failure_count, failed_numbers>>
        ELSE /\ RecordFailure(s, <<index[s], "formatted">>)
             /\ pc' = [pc EXCEPT ![s] = "progress"]
    /\ UNCHANGED <<current_sender, is_running, is_paused, success_count, input,
                   total, index, historyVars, eventVars, fmtVars>>

\* what send_image can do for each kind of Image cell: "skipped" is line 175
\* not calling it, "raise" is the log call of line 113 raising outside the try
ImageResults(img) ==
    CASE img = "blank" -> {"skipped"}
      [] img = "missing" -> {"false", "raise"}
      [] img = "exists" -> {"true", "false"}

\* mutant: a failed image step downgrades the job to a failure
SendImage_downgrade(s) ==
    /\ pc[s] = "image"
    /\ \E img \in {"blank", "missing", "exists"} : \E r \in ImageResults(img) :
        /\ image_result' = [image_result EXCEPT ![s] = r]
        /\ CASE r = "raise" ->
                  /\ pc' = [pc EXCEPT ![s] = "except"]
                  /\ UNCHANGED <<success_count, failure_count, failed_numbers>>
             [] r = "false" ->
                  /\ RecordFailure(s, <<index[s], "formatted">>)
                  /\ pc' = [pc EXCEPT ![s] = "progress"]
                  /\ UNCHANGED success_count
             [] OTHER ->
                  /\ RecordSuccess(s)
                  /\ pc' = [pc EXCEPT ![s] = "progress"]
                  /\ UNCHANGED <<failure_count, failed_numbers>>
    /\ UNCHANGED <<current_sender, is_running, is_paused, input, total, index,
                   begun, stop_issued, paused_seen, eventVars, fmtVars>>

\* run(), lines 175-177 with send_image, lines 107-131
SendImage(s) ==
    /\ pc[s] = "image"
    /\ \E img \in {"blank", "missing", "exists"} : \E r \in ImageResults(img) :
        /\ image_result' = [image_result EXCEPT ![s] = r]
        /\ IF r = "raise"
           THEN /\ pc' = [pc EXCEPT ![s] = "except"]
                /\ UNCHANGED success_count
           ELSE /\ RecordSuccess(s)
                /\ pc' = [pc EXCEPT ![s] = "progress"]
    /\ UNCHANGED <<current_sender, is_running, is_paused, failure_count,
                   failed_numbers, input, total, index, begun, stop_issued,
                   paused_seen, eventVars, fmtVars>>

\* emit_progress, lines 68-78: the event's payload
ProgressEvent(s) ==
    [current |-> index[s], total |-> total[s],
     percentage |-> IF total[s] > 0 THEN (index[s] * 100) \div total[s] ELSE 0,
     success |-> success_count[s], failed |-> failure_count[s]]

\* run(), line 182
EmitProgress(s) ==
    /\ pc[s] = "progress"
    /\ \E raises \in BOOLEAN :
        IF raises
        THEN /\ pc' = [pc EXCEPT ![s] = "except"]
             /\ UNCHANGED progress_log
        ELSE /\ progress_log' = [progress_log EXCEPT ![s] = Append(@, ProgressEvent(s))]
             /\ pc' = [pc EXCEPT ![s] = "loop"]
    /\ image_result' = [image_result EXCEPT ![s] = "none"]
    /\ UNCHANGED <<current_sender, senderVars, input, total, index, begun,
                   stop_issued, paused_seen, summary_total, run_log,
                   complete_log, fmtVars>>

\* run(), lines 184-187: the handler of the per-job try
Except(s) ==
    /\ pc[s] = "except"
    /\ run_log' = [run_log EXCEPT ![s] = @ \cup {"row_error"}]
    /\ RecordFailure(s, <<index[s], "raw">>)
    /\ pc' = [pc EXCEPT ![s] = "loop"]
    /\ image_result' = [image_result EXCEPT ![s] = "none"]
    /\ UNCHANGED <<current_sender, is_running, is_paused, success_count, input,
                   total, index, begun, stop_issued, paused_seen, progress_log,
                   summary_total, complete_log, fmtVars>>

\* run(), line 189 with emit_summary, lines 203-217
Summary(s) ==
    /\ pc[s] = "summary"
    /\ summary_total' = [summary_total EXCEPT ![s] = success_count[s] + failure_count[s]]
    /\ pc' = [pc EXCEPT ![s] = "finally"]
    /\ UNCHANGED <<current_sender, senderVars, input, total, index, historyVars,
                   progress_log, run_log, complete_log, fmtVars>>

\* run(), lines 194-195
FinallyClear(s) ==
    /\ pc[s] = "finally"
    /\ is_running' = [is_running EXCEPT ![s] = FALSE]
    /\ pc' = [pc EXCEPT ![s] = "complete"]
    /\ UNCHANGED <<current_sender, is_paused, success_count, failure_count,
                   failed_numbers, input, total, index, historyVars, eventVars,
                   fmtVars>>

\* run(), lines 196-201: the process_complete event, then the thread ends
EmitComplete(s) ==
    /\ pc[s] = "complete"
    /\ complete_log' = [complete_log EXCEPT ![s] =
            Append(@, [success |-> success_count[s], failed |-> failure_count[s],
                       failed_numbers |-> failed_numbers[s]])]
    /\ pc' = [pc EXCEPT ![s] = "done"]
    /\ UNCHANGED <<current_sender, senderVars, input, total, index, historyVars,
                   progress_log, summary_total, run_log, fmtVars>>

run(s) ==
    \/ RunBegin(s) \/ ReadInput(s) \/ LoopCheck(s) \/ PauseWait(s) \/ Body(s)
    \/ SendMessage(s) \/ SendImage(s) \/ EmitProgress(s) \/ Except(s)
    \/ Summary(s) \/ FinallyClear(s) \/ EmitComplete(s)

Next ==
    \/ handle_start_sending
    \/ handle_pause
    \/ handle_stop
    \/ \E s \in Senders : run(s)

Spec == Init /\ [][Next]_vars

\* ============== format_phone_number on its own ==========================
FmtInit ==
    /\ SenderInit
    /\ number \in RawNumbers
    /\ country_code \in CountryCodes
    /\ cleaned = <<>>
    /\ fpc = "call"
    /\ PrepIdle

FormatCall ==
    /\ fpc = "call"
    /\ cleaned' = format_phone_number(country_code, number)
    /\ fpc' = "ret"
    /\ UNCHANGED <<current_sender, senderVars, workerVars, historyVars, eventVars,
                   number, country_code, prepVars>>

FmtNext == FormatCall

FmtSpec == FmtInit /\ [][FmtNext]_vars

\* ================ prepare_message on its own ============================
PrepInit ==
    /\ SenderInit
    /\ number = <<>>
    /\ country_code = <<"+", "9", "1">>
    /\ cleaned = <<>>
    /\ fpc = "ret"
    /\ message \in RawMessages
    /\ prepared = <<>>
    /\ prepared_again = <<>>
    /\ ppc = "call"

\* message -> prepare_message(message)
PrepareCall ==
    /\ ppc = "call"
    /\ prepared' = prepare_message(message)
    /\ ppc' = "once"
    /\ UNCHANGED <<current_sender, senderVars, workerVars, historyVars, eventVars,
                   number, country_code, cleaned, fpc, message, prepared_again>>

\* the value returned is prepared a second time
PrepareAgain ==
    /\ ppc = "once"
    /\ prepared_again' = prepare_message(prepared)
    /\ ppc' = "twice"
    /\ UNCHANGED <<current_sender, senderVars, workerVars, historyVars, eventVars,
                   number, country_code, cleaned, fpc, message, prepared>>

PrepNext == PrepareCall \/ PrepareAgain

PrepSpec == PrepInit /\ [][PrepNext]_vars

\* ============================== claims ==================================
\* the worker of sender s is between the first statement of run() and its end
InRun(s) == pc[s] \notin {"none", "start", "done"}

\* a delivery action (send_message or send_image) of sender s is in progress
Delivering(s) == pc[s] \in {"sending", "image"}

\* the worker of sender s has left the for loop
LoopLeft(s) == pc[s] \in {"summary", "finally", "complete", "done"}

\* C1: a start command that arrives while a worker thread launched by an
\* accepted start has not terminated is rejected: it creates no sender and
\* no worker (only an accepted start changes current_sender).
C1_StartWhileActiveRejected ==
    [][current_sender' # current_sender => \A s \in Senders : ~Active(s)]_vars

\* C2: no two worker threads are inside run() at the same time, hence no two
\* delivery actions are in progress at the same time.
C2_AtMostOneActive ==
    /\ Cardinality({s \in Senders : InRun(s)}) <= 1
    /\ Cardinality({s \in Senders : Delivering(s)}) <= 1

\* C3: once a stop command has been issued to a live run, its worker begins
\* no further job.
C3_NoJobAfterStop ==
    [][\A s \in Senders : stop_issued[s] => begun'[s] = begun[s]]_vars

\* C4: success_count + failure_count never exceeds the number of rows of the
\* run.
C4_CountsWithinTotal ==
    \A s \in Senders : success_count[s] + failure_count[s] <= total[s]

\* C5: failed_numbers has exactly failure_count entries, in the run state
\* and in every process_complete event.
C5_FailedNumbersMatchCount ==
    \A s \in Senders :
        /\ Len(failed_numbers[s]) = failure_count[s]
        /\ \A k \in 1..Len(complete_log[s]) :
              Len(complete_log[s][k].failed_numbers) = complete_log[s][k].failed

C5_Witness ==
    \E s \in Senders :
        /\ pc[s] = "done"
        /\ Len(complete_log[s]) = 1
        /\ complete_log[s][1].failed = 2
        /\ complete_log[s][1].failed_numbers = <<<<1, "formatted">>, <<2, "raw">>>>

\* C6: a run that was stopped reports in its summary a total equal to the
\* number of jobs the worker began before it observed the stop.
C6_StoppedSummaryTotal ==
    \A s \in Senders :
        ("stopped" \in run_log[s] /\ summary_total[s] # -1)
            => summary_total[s] = Len(begun[s])

\* C7: whatever the pause toggles, the worker begins the rows in their
\* original order, each at most once and none skipped, and a run that is
\* never stopped has begun every row when it leaves the loop.
C7_PauseKeepsJobs ==
    \A s \in Senders :
        /\ begun[s] = [k \in 1..Len(begun[s]) |-> k]
        /\ Len(begun[s]) <= total[s]
        /\ (LoopLeft(s) /\ input[s] = "ok" /\ ~stop_issued[s])
              => Len(begun[s]) = total[s]

C7_Witness ==
    \E s \in Senders :
        /\ pc[s] = "done"
        /\ paused_seen[s]
        /\ ~stop_issued[s]
        /\ total[s] >= 2
        /\ Len(begun[s]) = total[s]

\* C8: when the sheet lacks a required column the run logs the error, begins
\* no job and invokes no delivery, keeps its counters at zero and its
\* failed list empty, and ends with is_running false.
C8_MissingColumnAborts ==
    \A s \in Senders :
        input[s] = "missing" =>
            /\ "missing_columns" \in run_log[s]
            /\ pc[s] \in {"finally", "complete", "done"}
            /\ begun[s] = <<>>
            /\ progress_log[s] = <<>>
            /\ success_count[s] = 0
            /\ failure_count[s] = 0
            /\ failed_numbers[s] = <<>>
            /\ (pc[s] = "done" => ~is_running[s])
            /\ \A k \in 1..Len(complete_log[s]) :
                  complete_log[s][k] = [success |-> 0, failed |-> 0,
                                        failed_numbers |-> <<>>]

C8_Witness ==
    \E s \in Senders :
        /\ input[s] = "missing"
        /\ pc[s] = "done"
        /\ Len(complete_log[s]) = 1

C10_DigitsAndOneLeadingPlus ==
    fpc = "ret" =>
        \A k \in 1..Len(cleaned) :
            /\ cleaned[k] \in Digits \cup {"+"}
            /\ (cleaned[k] = "+" => k = 1)

\* the characters prepare_message changes: raw newlines and everything
\* quote encodes
NeedsEncoding(c) == c \notin Unreserved /\ c # "%"

\* C11: a message without raw newline and without a character to encode is
\* returned unchanged, and preparing a prepared message changes nothing, so
\* an encoded newline is never escaped a second time.
C11_PrepareIdempotent ==
    /\ (ppc # "call" /\ \A k \in 1..Len(message) : ~NeedsEncoding(message[k]))
          => prepared = message
    /\ ppc = "twice" => prepared_again = prepared

C11_Witness ==
    /\ ppc = "twice"
    /\ message = <<"a", "\n", "&">>
    /\ prepared = <<"a", "%", "0", "A", "%", "2", "6">>
    /\ prepared_again = prepared

\* the worker of sender s is between two rows or past the loop: every row it
\* has begun is finished
BetweenJobs(s) == pc[s] = "loop" \/ LoopLeft(s)

\* the rows of sender s that have an entry in failed_numbers
FailedRows(s) == {failed_numbers[s][k][1] : k \in 1..Len(failed_numbers[s])}

\* C12: a worker that polls the pause condition while a stop is pending
\* leaves the pause wait, without a resume.
C12_StopReleasesPause ==
    [][\A s \in Senders :
          (/\ pc[s] = "pause" /\ is_paused[s]
           /\ stop_issued[s] /\ ~is_running[s]
           /\ paused_seen'[s] # paused_seen[s])
              => pc'[s] # "pause"]_vars

\* C13: between two rows and after the loop, the run has emitted one
\* progress notification per row it has processed.
C13_ProgressAfterEveryJob ==
    \A s \in Senders :
        BetweenJobs(s) => Len(progress_log[s]) = Len(begun[s])

\* C14: a row that failed is recorded once: failed_numbers holds one entry
\* per failed row and failure_count counts each failed row once.
C14_FailureRecordedOnce ==
    \A s \in Senders :
        BetweenJobs(s) =>
            /\ Len(failed_numbers[s]) = Cardinality(FailedRows(s))
            /\ failure_count[s] = Cardinality(FailedRows(s))
            /\ success_count[s] + Cardinality(FailedRows(s)) = Len(begun[s])

C16_CompleteBeforeNotRunning ==
    [][current_sender' # current_sender =>
          \A s \in Senders :
              (pc[s] \notin {"none", "start"} /\ ~stop_issued[s])
                  => complete_log[s] # <<>>]_vars

\* C17: a step of the worker thread writes neither is_running nor is_paused.
C17_WorkerOnlyReadsFlags ==
    [][\A s \in Senders :
          (pc[s] # "none" /\ pc'[s] # pc[s])
              => /\ is_running'[s] = is_running[s]
                 /\ is_paused'[s] = is_paused[s]]_vars

\* the run state of sender s: the fields of the object (lines 52-56)
RunState(s) ==
    <<is_running[s], is_paused[s], success_count[s], failure_count[s],
      failed_numbers[s]>>

\* C18: a pause command changes is_paused and nothing else of the run (not
\* is_running, the counters, the failed list or the worker's position), and
\* while the worker is at its poll point with is_paused true it stays there
\* and begins no row.
C18_PauseOnlyGates ==
    [][\A s \in Senders :
          /\ is_paused'[s] # is_paused[s] =>
                /\ is_running'[s] = is_running[s]
                /\ success_count'[s] = success_count[s]
                /\ failure_count'[s] = failure_count[s]
                /\ failed_numbers'[s] = failed_numbers[s]
                /\ pc'[s] = pc[s]
                /\ begun'[s] = begun[s]
                /\ progress_log'[s] = progress_log[s]
          /\ (pc[s] = "pause" /\ is_paused[s]) =>
                /\ pc'[s] = "pause"
                /\ begun'[s] = begun[s]]_vars

\* the first row was delivered, the pause keeps the worker before the second
C18_Witness ==
    \E s \in Senders :
        /\ pc[s] = "pause" /\ is_paused[s] /\ paused_seen[s] /\ is_running[s]
        /\ index[s] = 2 /\ begun[s] = <<1>> /\ success_count[s] = 1

\* C19: every progress notification reports success + failed = current.
C19_ProgressCountsAddUp ==
    \A s \in Senders : \A k \in 1..Len(progress_log[s]) :
        progress_log[s][k].success + progress_log[s][k].failed
            = progress_log[s][k].current

\* C20: an accepted start creates a run with zero counters, an empty failed
\* list and both flags false, and leaves every other run as it was; a step
\* that is not a step of a run's own worker changes the flags of the
\* current sender only.
C20_FreshRunState ==
    [][/\ current_sender' # current_sender =>
            /\ ~is_running'[current_sender'] /\ ~is_paused'[current_sender']
            /\ success_count'[current_sender'] = 0
            /\ failure_count'[current_sender'] = 0
            /\ failed_numbers'[current_sender'] = <<>>
            /\ begun'[current_sender'] = <<>>
            /\ \A s \in Senders \ {current_sender'} :
                  RunState(s)' = RunState(s) /\ pc'[s] = pc[s]
       /\ \A s \in Senders :
            (s # current_sender /\ pc'[s] = pc[s]) =>
                /\ is_running'[s] = is_running[s]
                /\ is_paused'[s] = is_paused[s]]_vars

\* the previous run ended while paused and with counted rows; the new run
\* has just been accepted
C20_Witness ==
    /\ current_sender = 2
    /\ pc[1] = "done" /\ is_paused[1]
    /\ success_count[1] >= 1 /\ failure_count[1] >= 1
    /\ pc[2] = "start"
    /\ RunState(2) = <<FALSE, FALSE, 0, 0, <<>>>>

====
